---- MODULE Spec2Model ----
(***************************************************************************)
(* Agent orchestration loop of the AI chat task manager                    *)
(* (python_backend/app/agent.py, tools.py): the LangGraph workflow         *)
(* model -> tool -> model ..., the TaskAgent session facade and the        *)
(* record store the tools act on.                                          *)
(*                                                                         *)
(* Python values are encoded as follows.                                   *)
(*   str            a TLA+ string; None (for an Optional[str]) is the      *)
(*                  reserved string NoneStr                                *)
(*   Optional[int]  an integer; None is 0 (the code only tests task_id     *)
(*                  for truthiness, and 0 and None are both falsy)         *)
(*   dict           a record whose DOMAIN is the dict's key set            *)
(*   list           a sequence                                             *)
(*   Optional[bool] state key that may be absent: {} / {TRUE} / {FALSE}    *)
(***************************************************************************)
EXTENDS Integers, Sequences, FiniteSets, TLC

(***************************************************************************)
(* Bounds of the model.                                                    *)
(***************************************************************************)
\* number of turns (invocations of the compiled workflow) in a run
MaxTurns == 2
\* largest number of tool calls carried by one model response
MaxCalls == 2
\* total number of tool calls the model requests in a run
MaxToolCalls == 2
\* total number of invocations of the model in a run
MaxInvocations == 3

Calls == 1..MaxTurns

NoneStr == "<None>"

Truthy(s) == s # NoneStr /\ s # ""

TruthyInt(n) == n # 0

(***************************************************************************)
(* models.py: the two enums (member name -> value).                        *)
(***************************************************************************)
TaskStatus ==
  [TODO |-> "todo", IN_PROGRESS |-> "in_progress", DONE |-> "done",
   CANCELLED |-> "cancelled"]

TaskPriority ==
  [LOW |-> "low", MEDIUM |-> "medium", HIGH |-> "high", URGENT |-> "urgent"]

\* str.upper() on the strings the model passes as enum arguments
Upper(s) ==
  CASE s = "low" -> "LOW"
    [] s = "medium" -> "MEDIUM"
    [] s = "high" -> "HIGH"
    [] s = "High" -> "HIGH"
    [] s = "urgent" -> "URGENT"
    [] s = "urgentt" -> "URGENTT"
    [] s = "todo" -> "TODO"
    [] s = "in_progress" -> "IN_PROGRESS"
    [] s = "in progress" -> "IN PROGRESS"
    [] s = "done" -> "DONE"
    [] s = "Done" -> "DONE"
    [] s = "cancelled" -> "CANCELLED"
    [] OTHER -> s

\* datetime.strptime(s, "%Y-%m-%d"): the day number of a well-formed date,
\* -1 for ValueError
Strptime(s) ==
  CASE s = "2025-08-01" -> 20250801
    [] s = "2025-08-02" -> 20250802
    [] s = "2025-8-2" -> 20250802
    [] OTHER -> -1

\* characters of the strings used as titles and title patterns
Chars(s) ==
  CASE s = "gym" -> <<"g", "y", "m">>
    [] s = "Gym bag" -> <<"G", "y", "m", " ", "b", "a", "g">>
    [] s = "milk" -> <<"m", "i", "l", "k">>
    [] s = "GYM" -> <<"G", "Y", "M">>
    [] s = "bag" -> <<"b", "a", "g">>
    [] OTHER -> <<>>

LowerChar(ch) ==
  CASE ch = "G" -> "g"
    [] ch = "Y" -> "y"
    [] ch = "M" -> "m"
    [] OTHER -> ch

LowerSeq(cs) == [i \in 1..Len(cs) |-> LowerChar(cs[i])]

\* SQL  title ILIKE '%pat%'
ILike(title, pat) ==
  LET t == LowerSeq(Chars(title))
      p == LowerSeq(Chars(pat))
  IN \E k \in 0..(Len(t) - Len(p)) :
        \A i \in 1..Len(p) : t[k + i] = p[i]

(***************************************************************************)
(* The record store: the rows of table tasks in insertion order, and the   *)
(* next value of the autoincrement primary key.                            *)
(***************************************************************************)
EmptyDb == [rows |-> <<>>, next_id |-> 1]

Msg(fmt, id, text) == [fmt |-> fmt, id |-> id, text |-> text]

Arg(args, k, default) == IF k \in DOMAIN args THEN args[k] ELSE default

TaskDict(t) ==
  [id |-> t.id, title |-> t.title, description |-> t.description,
   status |-> t.status, due_date |-> t.due_date, priority |-> t.priority]

ErrorResult(m) == [status |-> "error", message |-> m]

Out(db, r) == [db |-> db, result |-> r]

\* index of the first row that matches, 0 if none (query.filter(...).first());
\* hits[i] tells whether row i matches
FirstIndex(hits) ==
  IF \E i \in 1..Len(hits) : hits[i]
  THEN CHOOSE i \in 1..Len(hits) : hits[i] /\ \A j \in 1..(i - 1) : ~hits[j]
  ELSE 0

Reverse(s) == [i \in 1..Len(s) |-> s[Len(s) + 1 - i]]

RemoveAt(s, i) == [j \in 1..(Len(s) - 1) |-> IF j < i THEN s[j] ELSE s[j + 1]]

(***************************************************************************)
(* tools.py.  Each tool takes the keyword arguments, the store and fault,  *)
(* the place where the store raises during the call, and returns the store *)
(* after the call and the result dict.  fault is "none", "commit" (the     *)
(* commit of a writing tool, the query of a reading tool) or "refresh"     *)
(* (db.refresh after the commit of create_task and update_task; the other  *)
(* tools access the store no more after their commit or query).            *)
(***************************************************************************)
Faults == {"none", "commit", "refresh"}

\* the places where the store can raise during a call of the tool
FaultsOf(tool_name) ==
  CASE tool_name \in {"create_task", "update_task"} -> Faults
    [] tool_name \in {"delete_task", "list_tasks", "filter_tasks"} ->
         {"none", "commit"}
    [] OTHER -> {"none"}

NewTask(db, title, description, due, priority) ==
  [id |-> db.next_id, title |-> title, description |-> description,
   status |-> TaskStatus.TODO, due_date |-> due, priority |-> priority]

\* create_task with parsed_priority initialised to TaskPriority.LOW
create_task_default_low(args, db, fault) ==
  LET title == args.title
      description == Arg(args, "description", NoneStr)
      due_date == Arg(args, "due_date", NoneStr)
      priority == Arg(args, "priority", NoneStr)
      parsed_due_date == IF Truthy(due_date) THEN Strptime(due_date) ELSE 0
      parsed_priority ==
        IF Truthy(priority) THEN TaskPriority[Upper(priority)]
        ELSE TaskPriority.LOW
      new_task == NewTask(db, title, description, parsed_due_date, parsed_priority)
  IN IF Truthy(due_date) /\ Strptime(due_date) = -1
     THEN Out(db, ErrorResult(Msg("Invalid due_date format. Use YYYY-MM-DD.", 0, "")))
     ELSE IF Truthy(priority) /\ Upper(priority) \notin DOMAIN TaskPriority
     THEN Out(db, ErrorResult(Msg("Invalid priority: {}. Must be one of {}.", 0, priority)))
     ELSE IF fault = "commit" \/ title = NoneStr
     THEN Out(db, ErrorResult(Msg("Failed to create task: {}", 0, "")))
     ELSE IF fault = "refresh"
     THEN Out([rows |-> Append(db.rows, new_task), next_id |-> db.next_id + 1],
              ErrorResult(Msg("Failed to create task: {}", 0, "")))
     ELSE Out([rows |-> Append(db.rows, new_task), next_id |-> db.next_id + 1],
              [status |-> "success",
               message |-> Msg("Task '{}' created successfully with ID {}.",
                               new_task.id, new_task.title),
               task |-> TaskDict(new_task)])

\* lines 12-58
create_task(args, db, fault) ==
  LET title == args.title
      description == Arg(args, "description", NoneStr)
      due_date == Arg(args, "due_date", NoneStr)
      priority == Arg(args, "priority", NoneStr)
      parsed_due_date == IF Truthy(due_date) THEN Strptime(due_date) ELSE 0
      parsed_priority ==
        IF Truthy(priority) THEN TaskPriority[Upper(priority)]
        ELSE TaskPriority.MEDIUM
      new_task == NewTask(db, title, description, parsed_due_date, parsed_priority)
  IN IF Truthy(due_date) /\ Strptime(due_date) = -1
     THEN Out(db, ErrorResult(Msg("Invalid due_date format. Use YYYY-MM-DD.", 0, "")))
     ELSE IF Truthy(priority) /\ Upper(priority) \notin DOMAIN TaskPriority
     THEN Out(db, ErrorResult(Msg("Invalid priority: {}. Must be one of {}.", 0, priority)))
     ELSE IF fault = "commit" \/ title = NoneStr
     THEN Out(db, ErrorResult(Msg("Failed to create task: {}", 0, "")))
     ELSE IF fault = "refresh"
     THEN Out([rows |-> Append(db.rows, new_task), next_id |-> db.next_id + 1],
              ErrorResult(Msg("Failed to create task: {}", 0, "")))
     ELSE Out([rows |-> Append(db.rows, new_task), next_id |-> db.next_id + 1],
              [status |-> "success",
               message |-> Msg("Task '{}' created successfully with ID {}.",
                               new_task.id, new_task.title),
               task |-> TaskDict(new_task)])

\* lines 71-75 and 124-128: the row selected by task_id or else title_match
FindTask(rows, task_id, title_match) ==
  LET ById == [i \in 1..Len(rows) |-> rows[i].id = task_id]
      ByTitle == [i \in 1..Len(rows) |-> ILike(rows[i].title, title_match)]
  IN IF TruthyInt(task_id) THEN FirstIndex(ById)
     ELSE IF Truthy(title_match) THEN FirstIndex(ByTitle)
     ELSE 0

NotFound(task_id, title_match) ==
  ErrorResult(Msg("Task not found with ID {}.",
                  task_id, IF TruthyInt(task_id) THEN "" ELSE title_match))

update_task(args, db, fault) ==
  LET task_id == Arg(args, "task_id", 0)
      title_match == Arg(args, "title_match", NoneStr)
      new_title == Arg(args, "new_title", NoneStr)
      new_description == Arg(args, "new_description", NoneStr)
      new_status == Arg(args, "new_status", NoneStr)
      new_due_date == Arg(args, "new_due_date", NoneStr)
      new_priority == Arg(args, "new_priority", NoneStr)
      k == FindTask(db.rows, task_id, title_match)
      task == db.rows[k]
      t1 == IF Truthy(new_title) THEN [task EXCEPT !.title = new_title] ELSE task
      t2 == IF Truthy(new_description)
            THEN [t1 EXCEPT !.description = new_description] ELSE t1
      t3 == IF Truthy(new_status)
            THEN [t2 EXCEPT !.status = TaskStatus[Upper(new_status)]] ELSE t2
      t4 == IF Truthy(new_due_date)
            THEN [t3 EXCEPT !.due_date = Strptime(new_due_date)] ELSE t3
      t5 == IF Truthy(new_priority)
            THEN [t4 EXCEPT !.priority = TaskPriority[Upper(new_priority)]] ELSE t4
  IN IF k = 0
     THEN Out(db, NotFound(task_id, title_match))
     ELSE IF Truthy(new_status) /\ Upper(new_status) \notin DOMAIN TaskStatus
     THEN Out(db, ErrorResult(Msg("Invalid status: {}. Must be one of {}.", 0, new_status)))
     ELSE IF Truthy(new_due_date) /\ Strptime(new_due_date) = -1
     THEN Out(db, ErrorResult(Msg("Invalid new_due_date format. Use YYYY-MM-DD.", 0, "")))
     ELSE IF Truthy(new_priority) /\ Upper(new_priority) \notin DOMAIN TaskPriority
     THEN Out(db, ErrorResult(Msg("Invalid new_priority: {}. Must be one of {}.", 0, new_priority)))
     ELSE IF fault = "commit"
     THEN Out(db, ErrorResult(Msg("Failed to update task: {}", 0, "")))
     ELSE IF fault = "refresh"
     THEN Out([db EXCEPT !.rows[k] = t5],
              ErrorResult(Msg("Failed to update task: {}", 0, "")))
     ELSE Out([db EXCEPT !.rows[k] = t5],
              [status |-> "success",
               message |-> Msg("Task '{}' updated successfully.", 0, t5.title),
               task |-> TaskDict(t5)])

delete_task(args, db, fault) ==
  LET task_id == Arg(args, "task_id", 0)
      title_match == Arg(args, "title_match", NoneStr)
      k == FindTask(db.rows, task_id, title_match)
      task == db.rows[k]
  IN IF k = 0
     THEN Out(db, NotFound(task_id, title_match))
     ELSE IF fault = "commit"
     THEN Out(db, ErrorResult(Msg("Failed to delete task: {}", 0, "")))
     ELSE Out([db EXCEPT !.rows = RemoveAt(db.rows, k)],
              [status |-> "success",
               message |-> Msg("Task '{}' (ID: {}) deleted successfully.",
                               task.id, task.title)])

\* order_by(Task.created_at.desc()): newest row first
TasksData(rows) == [i \in 1..Len(rows) |-> TaskDict(Reverse(rows)[i])]

list_tasks(args, db, fault) ==
  IF fault = "commit"
  THEN Out(db, ErrorResult(Msg("Failed to list tasks: {}", 0, "")))
  ELSE Out(db, [status |-> "success", tasks |-> TasksData(db.rows)])

\* filter_tasks comparing the status column with the name of the enum
\* member instead of the member
filter_tasks_by_enum_name(args, db, fault) ==
  LET status == Arg(args, "status", NoneStr)
      priority == Arg(args, "priority", NoneStr)
      due_date_before == Arg(args, "due_date_before", NoneStr)
      due_date_after == Arg(args, "due_date_after", NoneStr)
      \* a comparison with a NULL due_date (0) is not true in SQL
      Keep(t) ==
        /\ Truthy(status) => t.status = Upper(status)
        /\ Truthy(priority) => t.priority = TaskPriority[Upper(priority)]
        /\ Truthy(due_date_before) =>
             t.due_date # 0 /\ t.due_date <= Strptime(due_date_before)
        /\ Truthy(due_date_after) =>
             t.due_date # 0 /\ t.due_date >= Strptime(due_date_after)
  IN IF Truthy(status) /\ Upper(status) \notin DOMAIN TaskStatus
     THEN Out(db, ErrorResult(Msg("Invalid status for filter: {}. Must be one of {}.", 0, status)))
     ELSE IF Truthy(priority) /\ Upper(priority) \notin DOMAIN TaskPriority
     THEN Out(db, ErrorResult(Msg("Invalid priority for filter: {}. Must be one of {}.", 0, priority)))
     ELSE IF Truthy(due_date_before) /\ Strptime(due_date_before) = -1
     THEN Out(db, ErrorResult(Msg("Invalid due_date_before format. Use YYYY-MM-DD.", 0, "")))
     ELSE IF Truthy(due_date_after) /\ Strptime(due_date_after) = -1
     THEN Out(db, ErrorResult(Msg("Invalid due_date_after format. Use YYYY-MM-DD.", 0, "")))
     ELSE IF fault = "commit"
     THEN Out(db, ErrorResult(Msg("Failed to filter tasks: {}", 0, "")))
     ELSE Out(db, [status |-> "success",
                   tasks |-> TasksData(SelectSeq(db.rows, Keep))])

\* lines 165-216
filter_tasks(args, db, fault) ==
  LET status == Arg(args, "status", NoneStr)
      priority == Arg(args, "priority", NoneStr)
      due_date_before == Arg(args, "due_date_before", NoneStr)
      due_date_after == Arg(args, "due_date_after", NoneStr)
      \* a comparison with a NULL due_date (0) is not true in SQL
      Keep(t) ==
        /\ Truthy(status) => t.status = TaskStatus[Upper(status)]
        /\ Truthy(priority) => t.priority = TaskPriority[Upper(priority)]
        /\ Truthy(due_date_before) =>
             t.due_date # 0 /\ t.due_date <= Strptime(due_date_before)
        /\ Truthy(due_date_after) =>
             t.due_date # 0 /\ t.due_date >= Strptime(due_date_after)
  IN IF Truthy(status) /\ Upper(status) \notin DOMAIN TaskStatus
     THEN Out(db, ErrorResult(Msg("Invalid status for filter: {}. Must be one of {}.", 0, status)))
     ELSE IF Truthy(priority) /\ Upper(priority) \notin DOMAIN TaskPriority
     THEN Out(db, ErrorResult(Msg("Invalid priority for filter: {}. Must be one of {}.", 0, priority)))
     ELSE IF Truthy(due_date_before) /\ Strptime(due_date_before) = -1
     THEN Out(db, ErrorResult(Msg("Invalid due_date_before format. Use YYYY-MM-DD.", 0, "")))
     ELSE IF Truthy(due_date_after) /\ Strptime(due_date_after) = -1
     THEN Out(db, ErrorResult(Msg("Invalid due_date_after format. Use YYYY-MM-DD.", 0, "")))
     ELSE IF fault = "commit"
     THEN Out(db, ErrorResult(Msg("Failed to filter tasks: {}", 0, "")))
     ELSE Out(db, [status |-> "success",
                   tasks |-> TasksData(SelectSeq(db.rows, Keep))])

(***************************************************************************)
(* agent.py: the tool registry and the executor.                           *)
(***************************************************************************)
tools_list ==
  {"create_task", "update_task", "delete_task", "list_tasks", "filter_tasks"}

\* names getattr(tools, name) resolves to something callable: the functions
\* tools.py defines and the classes it imports (lines 2-4)
ToolsModuleCallables ==
  tools_list \cup {"get_db_session_for_tool", "Session", "Task", "TaskStatus",
                   "TaskPriority", "datetime"}

\* names getattr(tools, name) resolves at all
ToolsModuleAttrs == ToolsModuleCallables \cup {"__name__", "__doc__"}

\* parameters of each callable, and the ones without a default
Params(name) ==
  CASE name = "create_task" -> {"title", "description", "due_date", "priority"}
    [] name = "update_task" ->
         {"task_id", "title_match", "new_title", "new_description",
          "new_status", "new_due_date", "new_priority"}
    [] name = "delete_task" -> {"task_id", "title_match"}
    [] name = "filter_tasks" ->
         {"status", "priority", "due_date_before", "due_date_after"}
    [] name = "Task" ->
         {"id", "title", "description", "status", "due_date", "priority",
          "created_at", "updated_at"}
    [] name = "datetime" -> {"year", "month", "day"}
    [] name \in {"TaskStatus", "TaskPriority"} -> {"value"}
    [] OTHER -> {}

Required(name) ==
  CASE name = "create_task" -> {"title"}
    [] name = "datetime" -> {"year", "month", "day"}
    [] name \in {"TaskStatus", "TaskPriority"} -> {"value"}
    [] OTHER -> {}

\* tool_func(**tool_args) binds without TypeError
Binds(name, args) ==
  Required(name) \subseteq DOMAIN args /\ DOMAIN args \subseteq Params(name)

ToolExecutionFailed == ErrorResult(Msg("Tool execution failed: {}", 0, ""))

\* the places where the store can raise during execute_tool: a call that
\* does not bind raises TypeError before it reaches the store
StoreFaults(tool_name, tool_args) ==
  IF Binds(tool_name, tool_args) THEN FaultsOf(tool_name) ELSE {"none"}

execute_tool(tool_name, tool_args, db, fault) ==
  IF tool_name \notin ToolsModuleAttrs THEN Out(db, ToolExecutionFailed)
  ELSE IF tool_name \notin ToolsModuleCallables THEN Out(db, ToolExecutionFailed)
  ELSE IF ~Binds(tool_name, tool_args) THEN Out(db, ToolExecutionFailed)
  ELSE CASE tool_name = "create_task" -> create_task(tool_args, db, fault)
         [] tool_name = "update_task" -> update_task(tool_args, db, fault)
         [] tool_name = "delete_task" -> delete_task(tool_args, db, fault)
         [] tool_name = "list_tasks" -> list_tasks(tool_args, db, fault)
         [] tool_name = "filter_tasks" -> filter_tasks(tool_args, db, fault)
         \* any other callable of the module is called and its return value,
         \* an object and not a result dict, is returned
         [] OTHER -> Out(db, [object |-> tool_name])

(***************************************************************************)
(* agent.py: messages, AgentState and the two nodes of the workflow.       *)
(***************************************************************************)
HumanMessage(content) == [type |-> "human", content |-> content]

AIMessage(content, tool_calls) ==
  [type |-> "ai", content |-> content, tool_calls |-> tool_calls]

\* content is str(tool_response); str is injective on the results, so the
\* result itself stands for its rendering
ToolMessage(content, tool_call_id) ==
  [type |-> "tool", content |-> content, tool_call_id |-> tool_call_id]

\* the three shapes of agent_outcome: None, a str, a list of tool responses
OutcomeNone == [kind |-> "none"]

OutcomeStr(text) == [kind |-> "str", text |-> text]

OutcomeList(responses) == [kind |-> "list", items |-> responses]

\* lines 56-60: the messages sent to the model
ModelMessages(state) ==
  LET messages == state.chat_history
      current_input == state.input
  IN IF \/ messages = <<>>
        \/ messages[Len(messages)].type # "human"
        \/ messages[Len(messages)].content # current_input
     THEN Append(messages, HumanMessage(current_input))
     ELSE messages

\* lines 69-96: the state after the model node, for a response of the model
call_model(state, response) ==
  LET messages == ModelMessages(state)
      tool_calls ==
        [i \in 1..Len(response.tool_calls) |->
           [name |-> response.tool_calls[i].name,
            args |-> response.tool_calls[i].args,
            id |-> response.tool_calls[i].id]]
  IN IF response.tool_calls # <<>>
     THEN [state EXCEPT
             !.agent_outcome = OutcomeNone,
             !.tool_calls = tool_calls,
             !.chat_history =
                Append(messages, AIMessage(response.content, response.tool_calls))]
     ELSE [state EXCEPT
             !.agent_outcome = OutcomeStr(response.content),
             !.tool_calls = <<>>,
             !.chat_history = Append(messages, AIMessage(response.content, <<>>))]

\* call_tool starting updated_chat_history as an empty list
ToolFrame_empty_history(state) ==
  [i |-> 1, responses |-> <<>>, tasks_updated |-> FALSE,
   updated_chat_history |-> <<>>]

\* lines 100-104: the locals of call_tool on entry; i is the position of the
\* for loop in tool_calls
ToolFrame(state) ==
  [i |-> 1, responses |-> <<>>, tasks_updated |-> FALSE,
   updated_chat_history |-> state.chat_history]

NoFrame ==
  [i |-> 0, responses |-> <<>>, tasks_updated |-> FALSE,
   updated_chat_history |-> <<>>]

MutatingTools == {"create_task", "update_task", "delete_task"}

\* call_tool_iteration with the ToolMessage appended only for a result that
\* is not an error
call_tool_iteration_drop_errors(state, frame, db, fault) ==
  LET tool_call == state.tool_calls[frame.i]
      out == execute_tool(tool_call.name, tool_call.args, db, fault)
      failed == "status" \in DOMAIN out.result /\ out.result.status = "error"
  IN [db |-> out.db,
      frame |->
        [i |-> frame.i + 1,
         responses |->
           Append(frame.responses,
                  [tool_name |-> tool_call.name, response |-> out.result]),
         tasks_updated |->
           IF tool_call.name \in MutatingTools THEN TRUE ELSE frame.tasks_updated,
         updated_chat_history |->
           IF failed THEN frame.updated_chat_history
           ELSE Append(frame.updated_chat_history,
                       ToolMessage(out.result, tool_call.id))]]

\* call_tool_iteration leaving the for loop at the first error result
call_tool_iteration_break_on_error(state, frame, db, fault) ==
  LET tool_call == state.tool_calls[frame.i]
      out == execute_tool(tool_call.name, tool_call.args, db, fault)
      failed == "status" \in DOMAIN out.result /\ out.result.status = "error"
  IN [db |-> out.db,
      frame |->
        [i |-> IF failed THEN Len(state.tool_calls) + 1 ELSE frame.i + 1,
         responses |->
           Append(frame.responses,
                  [tool_name |-> tool_call.name, response |-> out.result]),
         tasks_updated |->
           IF tool_call.name \in MutatingTools THEN TRUE ELSE frame.tasks_updated,
         updated_chat_history |->
           Append(frame.updated_chat_history,
                  ToolMessage(out.result, tool_call.id))]]

\* lines 106-122: one iteration of the for loop.  execute_tool catches every
\* exception, so the except branch of lines 124-132 is never taken.
call_tool_iteration(state, frame, db, fault) ==
  LET tool_call == state.tool_calls[frame.i]
      tool_name == tool_call.name
      tool_args == tool_call.args
      tool_id == tool_call.id
      out == execute_tool(tool_name, tool_args, db, fault)
      tool_response == out.result
  IN [db |-> out.db,
      frame |->
        [i |-> frame.i + 1,
         responses |->
           Append(frame.responses,
                  [tool_name |-> tool_name, response |-> tool_response]),
         tasks_updated |->
           IF tool_name \in MutatingTools THEN TRUE ELSE frame.tasks_updated,
         updated_chat_history |->
           Append(frame.updated_chat_history,
                  ToolMessage(tool_response, tool_id))]]

\* call_tool returning without the key chat_history
call_tool_return_without_history(state, frame) ==
  [state EXCEPT
     !.agent_outcome = OutcomeList(frame.responses),
     !.tasks_updated = {frame.tasks_updated}]

\* lines 135-139: the state after the tool node
call_tool_return(state, frame) ==
  [state EXCEPT
     !.agent_outcome = OutcomeList(frame.responses),
     !.tasks_updated = {frame.tasks_updated},
     !.chat_history = frame.updated_chat_history]

\* should_continue deciding on agent_outcome instead of tool_calls
should_continue_on_outcome(state) ==
  IF state.agent_outcome.kind = "list" THEN "tool" ELSE "END"

should_continue(state) ==
  IF state.tool_calls # <<>> THEN "tool" ELSE "END"

(***************************************************************************)
(* agent.py TaskAgent and main.py websocket_endpoint: the two callers of   *)
(* the compiled workflow.                                                  *)
(***************************************************************************)
\* lines 171-177
process_input_initial_state(self_chat_history, user_input) ==
  [input |-> user_input,
   chat_history |-> self_chat_history,
   tool_calls |-> <<>>,
   agent_outcome |-> OutcomeNone,
   tasks_updated |-> {FALSE}]

\* line 181, reached only when ainvoke returned
process_input_commit(self_chat_history, result) == result.chat_history

\* process_input storing the history in a finally block
process_input_raise_commits(self_chat_history, state) == state.chat_history

\* ainvoke raised: line 181 is skipped
process_input_raise(self_chat_history, state) == self_chat_history

\* main.py lines 84-88: the keys tool_calls, agent_outcome and tasks_updated
\* are absent; the first two are written by call_model before anything
\* reads them
websocket_initial_state(user_message_content) ==
  [input |-> user_message_content,
   chat_history |-> <<HumanMessage(user_message_content)>>,
   tool_calls |-> <<>>,
   agent_outcome |-> OutcomeNone,
   tasks_updated |-> {}]

\* dict.get(key, default) on a key that may be absent
Get(opt, default) == IF opt = {} THEN default ELSE CHOOSE b \in opt : TRUE

(***************************************************************************)
(* The state machine.  A turn is one invocation of the compiled workflow,  *)
(* by TaskAgent.process_input or by the websocket endpoint; turn c is at   *)
(* pc[c]: "idle" (not submitted), "model" (llm.invoke awaited), "tool"     *)
(* (inside the for loop of call_tool), "end" (ainvoke returned), "failed"  *)
(* (ainvoke raised the fault of the model) or "out_of_steps" (ainvoke      *)
(* raised GraphRecursionError).                                            *)
(***************************************************************************)
VARIABLES
  db,             \* the record store
  chat_history,   \* TaskAgent.chat_history of every agent
  pc,             \* position of every turn
  session,        \* the TaskAgent running the turn, 0 for a websocket turn
  initial_state,  \* the initial_state handed to ainvoke
  state,          \* the AgentState of the running workflow
  frame,          \* the locals of call_tool while the turn is in the tool node
  issued,         \* number of tool calls the model has requested so far
  invocations,    \* number of times llm.invoke has been called so far
  executed,       \* the last direct call of execute_tool and what it returned
  cleared,        \* the agents cleared by clear_history with no turn submitted since
  active_connections,  \* ConnectionManager.active_connections
  closed,         \* the websockets whose peer has gone: a send raises RuntimeError
  broadcast,      \* the running call of broadcast_json
  handler,        \* the call of websocket_endpoint serving every websocket
  rendered        \* the last outcome rendered and the two texts made of it

agent_vars ==
  <<db, chat_history, pc, session, initial_state, state, frame, issued,
    invocations, executed, cleared>>

ws_vars == <<active_connections, closed, broadcast, handler, rendered>>

vars == <<agent_vars, ws_vars>>

Agents == {1, 2}

UserInputs == {"a", "b"}

ModelTexts == {"done"}

NoArgs == [k \in {} |-> ""]

\* the tool calls the model chooses from
ToolMenu ==
  { [name |-> "create_task", args |-> [title |-> "gym"]],
    [name |-> "create_task", args |-> [title |-> "milk", priority |-> "urgentt"]],
    [name |-> "update_task", args |-> [task_id |-> 999, new_status |-> "done"]],
    [name |-> "list_tasks", args |-> NoArgs],
    [name |-> "search_tasks", args |-> NoArgs] }

Min(a, b) == IF a < b THEN a ELSE b

\* the responses llm.invoke can return for a message list of length n:
\* a text, or up to MaxCalls tool calls with fresh ids
TextResponses == {[content |-> t, tool_calls |-> <<>>] : t \in ModelTexts}

ToolResponses(n) ==
  { [content |-> "",
     tool_calls |->
       [i \in 1..Len(b) |->
          [name |-> b[i].name, args |-> b[i].args, id |-> <<n, i>>]]] :
    b \in UNION {[1..k -> ToolMenu] :
                   k \in 1..Min(MaxCalls, MaxToolCalls - issued)} }

NoState == process_input_initial_state(<<>>, "")

NoExecution ==
  [tool_name |-> "", tool_args |-> NoArgs, before |-> EmptyDb, fault |-> "none",
   result |-> [object |-> "nothing"]]

\* number of websockets that connect in a run
MaxSockets == 3

Sockets == 1..MaxSockets

\* the frame of broadcast_json: running, the position i of the list
\* iterator of the for loop and, for the properties, the list as it was when
\* the call started and the connections a send was attempted to
NoBroadcast ==
  [running |-> FALSE, i |-> 0, at_start |-> <<>>, attempted |-> <<>>]

\* the frame of websocket_endpoint for one websocket: its position pc, the
\* turn it awaits, tasks_updated_flag, the iterator position i of its call of
\* broadcast_json and the connection being sent to, the exception that ended
\* the receive loop and, for the properties, whether the reply to the
\* message being handled has been sent and whether broadcast_json was called
\* for it
NoHandler ==
  [pc |-> "off", turn |-> 0, tasks_updated_flag |-> FALSE, i |-> 0,
   connection |-> 0, raised |-> "none", replied |-> FALSE,
   broadcast_called |-> FALSE]

\* nothing rendered yet
NoRendering ==
  [outcome |-> [kind |-> "none"], get_final_response |-> <<>>,
   ai_response_content |-> <<>>]

Init ==
  /\ db = EmptyDb
  /\ chat_history = [a \in Agents |-> <<>>]
  /\ pc = [c \in Calls |-> "idle"]
  /\ session = [c \in Calls |-> 0]
  /\ initial_state = [c \in Calls |-> NoState]
  /\ state = [c \in Calls |-> NoState]
  /\ frame = [c \in Calls |-> NoFrame]
  /\ issued = 0
  /\ invocations = 0
  /\ executed = NoExecution
  /\ cleared = {}
  /\ active_connections = <<>>
  /\ closed = {}
  /\ broadcast = NoBroadcast
  /\ handler = [w \in Sockets |-> NoHandler]
  /\ rendered = NoRendering

\* turns are numbered in the order they are submitted
Submittable(c) == pc[c] = "idle" /\ \A d \in 1..(c - 1) : pc[d] # "idle"

\* the code never looks into a user text, so the first text of a run is
\* named "a" and a later one is the same text or another one
InputsOf(c) == IF c = 1 THEN {"a"} ELSE UserInputs

\* TaskAgent.process_input up to the await of ainvoke
ProcessInput(c, a, user_input) ==
  /\ Submittable(c)
  /\ session' = [session EXCEPT ![c] = a]
  /\ initial_state' =
       [initial_state EXCEPT
          ![c] = process_input_initial_state(chat_history[a], user_input)]
  /\ state' = [state EXCEPT ![c] = initial_state'[c]]
  /\ pc' = [pc EXCEPT ![c] = "model"]
  /\ cleared' = cleared \ {a}
  /\ UNCHANGED <<db, chat_history, frame, issued, invocations, executed>>
  /\ UNCHANGED ws_vars

\* websocket_endpoint receiving a chat_message, up to the await of ainvoke
WebsocketChat(c, user_message_content) ==
  /\ Submittable(c)
  /\ session' = [session EXCEPT ![c] = 0]
  /\ initial_state' =
       [initial_state EXCEPT ![c] = websocket_initial_state(user_message_content)]
  /\ state' = [state EXCEPT ![c] = initial_state'[c]]
  /\ pc' = [pc EXCEPT ![c] = "model"]
  /\ UNCHANGED <<db, chat_history, frame, issued, invocations, executed>>
  /\ UNCHANGED <<active_connections, closed, broadcast, rendered, cleared>>

\* ModelStep with chat_history an attribute of the class TaskAgent, shared
\* by its instances
ModelStep_shared_history(c, r) ==
  /\ pc[c] = "model"
  /\ invocations' = invocations + 1
  /\ LET new == call_model(state[c], r)
     IN /\ state' = [state EXCEPT ![c] = new]
        /\ issued' = issued + Len(r.tool_calls)
        /\ IF should_continue(new) = "tool"
           THEN /\ pc' = [pc EXCEPT ![c] = "tool"]
                /\ frame' = [frame EXCEPT ![c] = ToolFrame(new)]
                /\ UNCHANGED chat_history
           ELSE /\ pc' = [pc EXCEPT ![c] = "end"]
                /\ frame' = frame
                /\ chat_history' =
                     IF session[c] \in Agents
                     THEN [a \in Agents |->
                             process_input_commit(chat_history[session[c]], new)]
                     ELSE chat_history
  /\ UNCHANGED <<db, session, initial_state, executed>>
  /\ UNCHANGED <<ws_vars, cleared>>

\* the model node with response r, the conditional edge after it and, when
\* the edge leads to END, the return of ainvoke into its caller
ModelStep(c, r) ==
  /\ pc[c] = "model"
  /\ invocations' = invocations + 1
  /\ LET new == call_model(state[c], r)
     IN /\ state' = [state EXCEPT ![c] = new]
        /\ issued' = issued + Len(r.tool_calls)
        /\ IF should_continue(new) = "tool"
           THEN /\ pc' = [pc EXCEPT ![c] = "tool"]
                /\ frame' = [frame EXCEPT ![c] = ToolFrame(new)]
                /\ UNCHANGED chat_history
           ELSE /\ pc' = [pc EXCEPT ![c] = "end"]
                /\ frame' = frame
                /\ chat_history' =
                     IF session[c] \in Agents
                     THEN [chat_history EXCEPT
                             ![session[c]] =
                                process_input_commit(chat_history[session[c]], new)]
                     ELSE chat_history
  /\ UNCHANGED <<db, session, initial_state, executed>>
  /\ UNCHANGED <<ws_vars, cleared>>

\* ModelStep within the number of invocations of a run
ModelNode(c, r) == invocations < MaxInvocations /\ ModelStep(c, r)

\* llm.invoke returns one of the responses it can return
InvokeModel(c) ==
  \E r \in TextResponses \cup ToolResponses(Len(ModelMessages(state[c]))) :
    ModelNode(c, r)

\* llm.invoke raises: the exception leaves call_model, the workflow and ainvoke
ModelFault(c) ==
  /\ pc[c] = "model"
  /\ invocations < MaxInvocations
  /\ invocations' = invocations + 1
  /\ pc' = [pc EXCEPT ![c] = "failed"]
  /\ chat_history' =
       IF session[c] \in Agents
       THEN [chat_history EXCEPT
               ![session[c]] =
                  process_input_raise(chat_history[session[c]], state[c])]
       ELSE chat_history
  /\ UNCHANGED <<db, session, initial_state, state, frame, issued, executed>>
  /\ UNCHANGED <<ws_vars, cleared>>

\* one iteration of the for loop of the tool node; after the last one the
\* node returns and the edge tool -> model is taken
ToolNode(c, fault) ==
  /\ pc[c] = "tool"
  /\ fault \in StoreFaults(state[c].tool_calls[frame[c].i].name,
                           state[c].tool_calls[frame[c].i].args)
  /\ LET r == call_tool_iteration(state[c], frame[c], db, fault)
     IN /\ db' = r.db
        /\ IF r.frame.i > Len(state[c].tool_calls)
           THEN /\ state' = [state EXCEPT ![c] = call_tool_return(state[c], r.frame)]
                /\ frame' = [frame EXCEPT ![c] = NoFrame]
                /\ pc' = [pc EXCEPT ![c] = "model"]
           ELSE /\ frame' = [frame EXCEPT ![c] = r.frame]
                /\ UNCHANGED <<state, pc>>
  /\ UNCHANGED <<chat_history, session, initial_state, issued, invocations, executed>>
  /\ UNCHANGED <<ws_vars, cleared>>

\* The loop does not look into the store; where in a call the store raised
\* is told apart in SpecTools.
Next ==
  \/ \E c \in Calls : \E u \in InputsOf(c) : ProcessInput(c, 1, u)
  \/ \E c \in Calls : InvokeModel(c)
  \/ \E c \in Calls : ModelFault(c)
  \/ \E c \in Calls, fault \in {"none", "commit"} : ToolNode(c, fault)

Spec == Init /\ [][Next]_vars

(***************************************************************************)
(* The executor on its own: execute_tool called directly, with any name    *)
(* and arguments, on the stores that earlier calls produce.                *)
(***************************************************************************)
\* number of rows created in a run of the executor
MaxRows == 2

ToolNames ==
  tools_list \cup {"search_tasks", "get_db_session_for_tool", "__name__"}

ToolArgs ==
  { NoArgs,
    [title |-> "gym"],
    [title |-> "Gym bag", priority |-> "High"],
    [title |-> "milk", priority |-> "urgentt"],
    [title |-> "milk", due_date |-> "2025-08-02"],
    [title |-> "milk", due_date |-> "02/08/2025"],
    [task_id |-> 1],
    [task_id |-> 999, new_status |-> "done"],
    [task_id |-> 1, new_status |-> "done"],
    [title_match |-> "GYM", new_priority |-> "urgent"],
    [title_match |-> "bag"],
    [task_id |-> 999, title_match |-> "gym"],
    [status |-> "todo", priority |-> "medium"],
    [status |-> "todo", priority |-> "high"] }

ExecuteTool(tool_name, tool_args, fault) ==
  /\ db.next_id <= MaxRows \/ tool_name # "create_task"
  /\ fault \in StoreFaults(tool_name, tool_args)
  /\ LET out == execute_tool(tool_name, tool_args, db, fault)
     IN /\ db' = out.db
        /\ executed' =
             [tool_name |-> tool_name, tool_args |-> tool_args, before |-> db,
              fault |-> fault, result |-> out.result]
  /\ UNCHANGED <<chat_history, pc, session, initial_state, state, frame,
                 issued, invocations>>
  /\ UNCHANGED <<ws_vars, cleared>>

NextTools ==
  \E tool_name \in ToolNames, tool_args \in ToolArgs, fault \in Faults :
    ExecuteTool(tool_name, tool_args, fault)

SpecTools == Init /\ [][NextTools]_vars

(***************************************************************************)
(* The loop on its own: one turn whose model may request a tool in every   *)
(* round.  The workflow is compiled and invoked without a config           *)
(* (agent.py lines 161 and 179), so it runs under the default recursion    *)
(* limit of the graph engine: a run that has taken recursion_limit nodes   *)
(* (super-steps) without reaching END raises GraphRecursionError out of    *)
(* ainvoke.  In Spec a turn takes fewer than 2 * MaxInvocations nodes,     *)
(* which is below the limit.                                               *)
(***************************************************************************)
recursion_limit == 25

\* the messages turn c has appended to the history it started from
Appended(c) ==
  SubSeq(state[c].chat_history, Len(initial_state[c].chat_history) + 1,
         Len(state[c].chat_history))

\* positions of the AIMessages among the messages turn c has appended
AppendedAI(c) == {j \in 1..Len(Appended(c)) : Appended(c)[j].type = "ai"}

\* the nodes turn c has run: one model node per AIMessage it has appended,
\* one tool node per such message with tool calls, less the tool node it is in
SuperSteps(c) ==
  Cardinality(AppendedAI(c))
    + Cardinality({j \in AppendedAI(c) : Appended(c)[j].tool_calls # <<>>})
    - (IF pc[c] = "tool" THEN 1 ELSE 0)

\* the model answers with a text or asks for the task list
LoopResponses(n) ==
  TextResponses \cup
    { [content |-> "",
       tool_calls |-> <<[name |-> "list_tasks", args |-> NoArgs, id |-> <<n, 1>>]>>] }

LoopSubmit == ProcessInput(1, 1, "a")

LoopModel(c) ==
  /\ SuperSteps(c) < recursion_limit
  /\ \E r \in LoopResponses(Len(ModelMessages(state[c]))) : ModelStep(c, r)

LoopTool(c, fault) ==
  /\ SuperSteps(c) < recursion_limit
  /\ ToolNode(c, fault)

\* the engine stops the run: GraphRecursionError leaves ainvoke and
\* process_input, line 181 is skipped
OutOfSteps(c) ==
  /\ pc[c] \in {"model", "tool"}
  /\ SuperSteps(c) >= recursion_limit
  /\ pc' = [pc EXCEPT ![c] = "out_of_steps"]
  /\ chat_history' =
       IF session[c] \in Agents
       THEN [chat_history EXCEPT
               ![session[c]] =
                  process_input_raise(chat_history[session[c]], state[c])]
       ELSE chat_history
  /\ UNCHANGED <<db, session, initial_state, state, frame, issued, invocations,
                 executed>>
  /\ UNCHANGED <<ws_vars, cleared>>

NextLoop ==
  \/ LoopSubmit
  \/ LoopModel(1)
  \/ \E fault \in Faults : LoopTool(1, fault)
  \/ OutOfSteps(1)

SpecLoop == Init /\ [][NextLoop]_vars

(***************************************************************************)
(* Two TaskAgent instances: their turns and their calls of clear_history   *)
(* in any interleaving.  The model answers with a text or asks for one     *)
(* task to be created.                                                     *)
(***************************************************************************)
\* lines 187-189
clear_history(self_chat_history) == <<>>

ClearHistory(a) ==
  /\ chat_history' = [chat_history EXCEPT ![a] = clear_history(chat_history[a])]
  /\ cleared' = cleared \cup {a}
  /\ UNCHANGED <<db, pc, session, initial_state, state, frame, issued,
                 invocations, executed>>
  /\ UNCHANGED ws_vars

SessionResponses(n) ==
  TextResponses \cup
    { [content |-> "",
       tool_calls |->
         <<[name |-> "create_task", args |-> [title |-> "gym"], id |-> <<n, 1>>]>>] }

SessionSubmit(c, a) == \E u \in InputsOf(c) : ProcessInput(c, a, u)

SessionModel(c) ==
  \E r \in SessionResponses(Len(ModelMessages(state[c]))) : ModelNode(c, r)

NextSessions ==
  \/ \E c \in Calls, a \in Agents : SessionSubmit(c, a)
  \/ \E a \in Agents : ClearHistory(a)
  \/ \E c \in Calls : SessionModel(c)
  \/ \E c \in Calls : ModelFault(c)
  \/ \E c \in Calls, fault \in {"none", "commit"} : ToolNode(c, fault)

SpecSessions == Init /\ [][NextSessions]_vars

(***************************************************************************)
(* websocket.py: the ConnectionManager.  A websocket is named by a number. *)
(* broadcast_json suspends at every send, so connects and closes of peers  *)
(* interleave with its loop.                                               *)
(***************************************************************************)
Connected(w) == \E k \in 1..Len(active_connections) : active_connections[k] = w

\* list.remove(w): the list without the first occurrence of w
Remove(list, w) ==
  RemoveAt(list, CHOOSE k \in 1..Len(list) :
                   list[k] = w /\ \A j \in 1..(k - 1) : list[j] # w)

\* connect, lines 42-45
WsConnect(w) ==
  /\ ~Connected(w)
  /\ w \notin closed
  /\ active_connections' = Append(active_connections, w)
  /\ UNCHANGED <<closed, broadcast, handler, rendered>>
  /\ UNCHANGED agent_vars

\* the peer of a connected websocket goes away
WsClose(w) ==
  /\ Connected(w)
  /\ w \notin closed
  /\ closed' = closed \cup {w}
  /\ UNCHANGED <<active_connections, broadcast, handler, rendered>>
  /\ UNCHANGED agent_vars

\* main.py lines 156-159: the endpoint calls broadcast_json; line 55 creates
\* the iterator of the list
BroadcastStart ==
  /\ ~broadcast.running
  /\ active_connections # <<>>
  /\ broadcast' =
       [running |-> TRUE, i |-> 0, at_start |-> active_connections,
        attempted |-> <<>>]
  /\ UNCHANGED <<active_connections, closed, handler, rendered>>
  /\ UNCHANGED agent_vars

\* lines 55-60: the iterator yields the element at its position in the list
\* as the list is now and moves on by one, or ends the loop; a send to a
\* closed websocket raises RuntimeError and disconnect removes the
\* connection from the list that is being iterated
BroadcastStep ==
  /\ broadcast.running
  /\ IF broadcast.i < Len(active_connections)
     THEN LET connection == active_connections[broadcast.i + 1]
          IN /\ broadcast' =
                  [broadcast EXCEPT
                     !.i = broadcast.i + 1,
                     !.attempted = Append(broadcast.attempted, connection)]
             /\ active_connections' =
                  IF connection \in closed
                  THEN Remove(active_connections, connection)
                  ELSE active_connections
     ELSE /\ broadcast' = [broadcast EXCEPT !.running = FALSE]
          /\ UNCHANGED active_connections
  /\ UNCHANGED <<closed, handler, rendered>>
  /\ UNCHANGED agent_vars

NextBroadcast ==
  \/ \E w \in Sockets : WsConnect(w)
  \/ \E w \in Sockets : WsClose(w)
  \/ BroadcastStart
  \/ BroadcastStep

SpecBroadcast == Init /\ [][NextBroadcast]_vars

(***************************************************************************)
(* The two renderings of an agent_outcome: TaskAgent.get_final_response    *)
(* (agent.py lines 191-203) and the chat_message branch of                 *)
(* websocket_endpoint (main.py lines 90-124).  A text is the sequence of   *)
(* the lines joined by "\n"; a line is a record of its format string and   *)
(* the values formatted into it.                                           *)
(***************************************************************************)
TextLine(text) == [line |-> "{}", text |-> text]

MessageLine(message) == [line |-> "{}", message |-> message]

ToolFeedbackLine(tool_name, status_msg, message_msg) ==
  [line |-> "Tool '{}' executed: Status: {}, Message: {}",
   tool_name |-> tool_name, status |-> status_msg, message |-> message_msg]

\* main.py lines 117-119: the id is appended when it is truthy
TaskSummaryLine(task_info) ==
  IF TruthyInt(task_info.id)
  THEN [line |-> "Task details: Title: {}, Status: {}, Priority: {}, ID: {}",
        title |-> task_info.title, status |-> task_info.status,
        priority |-> task_info.priority, id |-> task_info.id]
  ELSE [line |-> "Task details: Title: {}, Status: {}, Priority: {}",
        title |-> task_info.title, status |-> task_info.status,
        priority |-> task_info.priority]

\* response.get("message", default)
MessageOf(response, default) ==
  IF "message" \in DOMAIN response THEN response.message
  ELSE Msg(default, 0, "")

\* response.get("status", default)
StatusOf(response, default) ==
  IF "status" \in DOMAIN response THEN response.status ELSE default

\* agent.py lines 191-203
get_final_response(result) ==
  LET agent_outcome == result.agent_outcome
  IN IF agent_outcome.kind = "str" THEN <<TextLine(agent_outcome.text)>>
     ELSE IF agent_outcome.kind = "list"
     THEN [k \in 1..Len(agent_outcome.items) |->
             LET item == agent_outcome.items[k]
             IN IF StatusOf(item.response, "") = "success"
                THEN MessageLine(MessageOf(item.response, "Success"))
                ELSE MessageLine(MessageOf(item.response, "Error"))]
     ELSE <<TextLine("Task completed successfully.")>>

\* main.py lines 104-120: the lines appended to tool_messages for one item
tool_messages_of(item) ==
  LET tool_name == item.tool_name
      response_data == item.response
      status_msg == StatusOf(response_data, "unknown")
      message_msg == MessageOf(response_data, "No specific message.")
      tool_feedback == ToolFeedbackLine(tool_name, status_msg, message_msg)
  IN IF status_msg = "success" /\ "task" \in DOMAIN response_data
     THEN <<tool_feedback, TaskSummaryLine(response_data.task)>>
     ELSE <<tool_feedback>>

RECURSIVE tool_messages(_)
tool_messages(items) ==
  IF items = <<>> THEN <<>>
  ELSE tool_messages_of(Head(items)) \o tool_messages(Tail(items))

\* main.py lines 90-124: ai_response_content for the output of the workflow
ai_response_content(agent_output) ==
  LET outcome == agent_output.agent_outcome
  IN IF outcome.kind = "str" THEN <<TextLine(outcome.text)>>
     ELSE IF outcome.kind = "list" THEN tool_messages(outcome.items)
     ELSE <<TextLine("The agent had an unexpected outcome.")>>

\* a store holding one task
SampleDb == create_task([title |-> "gym"], EmptyDb, "none").db

\* the tool calls whose results are rendered
RenderCalls ==
  { [name |-> "create_task", args |-> [title |-> "milk"], fault |-> "none"],
    [name |-> "create_task", args |-> [title |-> "milk"], fault |-> "commit"],
    [name |-> "create_task", args |-> [title |-> "milk", priority |-> "urgentt"],
     fault |-> "none"],
    [name |-> "update_task", args |-> [task_id |-> 1, new_status |-> "done"],
     fault |-> "none"],
    [name |-> "update_task", args |-> [task_id |-> 999, new_status |-> "done"],
     fault |-> "none"],
    [name |-> "delete_task", args |-> [task_id |-> 1], fault |-> "none"],
    [name |-> "list_tasks", args |-> NoArgs, fault |-> "none"],
    [name |-> "list_tasks", args |-> NoArgs, fault |-> "commit"],
    [name |-> "filter_tasks", args |-> [status |-> "todo", priority |-> "medium"],
     fault |-> "none"],
    [name |-> "search_tasks", args |-> NoArgs, fault |-> "none"] }

\* the items call_tool makes of them (agent.py lines 112-115)
RenderItems ==
  { [tool_name |-> call.name,
     response |-> execute_tool(call.name, call.args, SampleDb, call.fault).result] :
    call \in RenderCalls }

\* the outcomes a workflow state can hold: none, a text, or the list of the
\* results of one round of at most MaxCalls tool calls
RenderOutcomes ==
  {OutcomeNone} \cup {OutcomeStr(t) : t \in ModelTexts}
  \cup {OutcomeList(items) : items \in UNION {[1..k -> RenderItems] : k \in 0..MaxCalls}}

\* both renderings applied to the same outcome
Render(outcome) ==
  /\ rendered' =
       [outcome |-> outcome,
        get_final_response |-> get_final_response([agent_outcome |-> outcome]),
        ai_response_content |-> ai_response_content([agent_outcome |-> outcome])]
  /\ UNCHANGED <<active_connections, closed, broadcast, handler>>
  /\ UNCHANGED agent_vars

NextRender == \E outcome \in RenderOutcomes : Render(outcome)

SpecRender == Init /\ [][NextRender]_vars

(***************************************************************************)
(* main.py: websocket_endpoint, one call per websocket.  handler[w].pc is  *)
(* "off" (not accepted yet), "receive" (awaiting receive_text), "turn"     *)
(* (awaiting ainvoke), "reply" (awaiting send_personal_message), "sleep"   *)
(* (awaiting asyncio.sleep), "broadcast" (in the for loop of               *)
(* broadcast_json, before the iterator is asked), "send" (awaiting         *)
(* send_json to handler[w].connection), "except" (in the except branch,    *)
(* awaiting the send of the error message), "exited" (the finally block    *)
(* has run) or "crashed" (disconnect raised in the finally block).  Every  *)
(* await is a point where the other handlers run.  A send to a websocket   *)
(* whose peer has gone raises RuntimeError, receive_text on it raises      *)
(* WebSocketDisconnect.  The reply text is a local of the handler that     *)
(* nothing else reads; ai_response_content above is what it holds.         *)
(***************************************************************************)
\* the exception that leaves the while loop of handler w; the locals of
\* broadcast_json are gone
Raise(w, exception) ==
  [handler EXCEPT
     ![w] = [@ EXCEPT !.pc = "except", !.raised = exception, !.i = 0,
                      !.connection = 0]]

\* the body of the for loop of broadcast_json is done for one connection
Sent(w) ==
  [handler EXCEPT ![w] = [@ EXCEPT !.pc = "broadcast", !.connection = 0]]

\* the handler has ended: only how it ended is left of it
Ended(w, how, exception) ==
  [handler EXCEPT ![w] = [NoHandler EXCEPT !.pc = how, !.raised = exception]]

\* lines 67-70: accept and append; websockets are numbered as they connect
EpConnect(w) ==
  /\ handler[w].pc = "off"
  /\ \A v \in 1..(w - 1) : handler[v].pc # "off"
  /\ active_connections' = Append(active_connections, w)
  /\ handler' = [handler EXCEPT ![w] = [@ EXCEPT !.pc = "receive"]]
  /\ UNCHANGED <<closed, broadcast, rendered>>
  /\ UNCHANGED agent_vars

\* the peer of an accepted websocket goes away
EpPeerCloses(w) ==
  /\ handler[w].pc \notin {"off", "exited", "crashed"}
  /\ w \notin closed
  /\ closed' = closed \cup {w}
  /\ UNCHANGED <<active_connections, broadcast, handler, rendered>>
  /\ UNCHANGED agent_vars

\* lines 75-88: a chat_message is received and the workflow is invoked
EpReceiveChat(w, c, user_message_content) ==
  /\ handler[w].pc = "receive"
  /\ w \notin closed
  /\ WebsocketChat(c, user_message_content)
  /\ handler' =
       [handler EXCEPT
          ![w] = [@ EXCEPT !.pc = "turn", !.turn = c,
                           !.tasks_updated_flag = FALSE, !.replied = FALSE,
                           !.broadcast_called = FALSE]]

\* line 75: receive_text raises WebSocketDisconnect
EpReceiveDisconnect(w) ==
  /\ handler[w].pc = "receive"
  /\ w \in closed
  /\ handler' = Raise(w, "WebSocketDisconnect")
  /\ UNCHANGED <<active_connections, closed, broadcast, rendered>>
  /\ UNCHANGED agent_vars

\* lines 84-131: ainvoke returns agent_output; the reply is rendered and
\* tasks_updated_flag is set from agent_output.get("tasks_updated", False)
EpTurnReturns(w) ==
  /\ handler[w].pc = "turn"
  /\ pc[handler[w].turn] = "end"
  /\ handler' =
       [handler EXCEPT
          ![w] = [@ EXCEPT
                    !.pc = "reply",
                    !.tasks_updated_flag =
                       Get(state[handler[w].turn].tasks_updated, FALSE)]]
  /\ UNCHANGED <<active_connections, closed, broadcast, rendered>>
  /\ UNCHANGED agent_vars

\* lines 84-88, 163: ainvoke raises
EpTurnRaises(w) ==
  /\ handler[w].pc = "turn"
  /\ pc[handler[w].turn] = "failed"
  /\ handler' = Raise(w, "Exception")
  /\ UNCHANGED <<active_connections, closed, broadcast, rendered>>
  /\ UNCHANGED agent_vars

\* lines 133-140: send_personal_message; then the loop goes on to the
\* broadcast when tasks_updated_flag is set and back to receive_text otherwise
EpReply(w) ==
  /\ handler[w].pc = "reply"
  /\ handler' =
       IF w \in closed THEN Raise(w, "RuntimeError")
       ELSE [handler EXCEPT
               ![w] = [@ EXCEPT
                         !.replied = TRUE,
                         !.pc = IF handler[w].tasks_updated_flag
                                THEN "sleep" ELSE "receive"]]
  /\ UNCHANGED <<active_connections, closed, broadcast, rendered>>
  /\ UNCHANGED agent_vars

\* lines 142-159 and websocket.py line 55: after the sleep the tasks are
\* queried (the query may raise) and broadcast_json is called, which creates
\* the iterator of active_connections
EpBroadcastCall(w, fault) ==
  /\ handler[w].pc = "sleep"
  /\ fault \in {"none", "query"}
  /\ handler' =
       IF fault = "query" THEN Raise(w, "SQLAlchemyError")
       ELSE [handler EXCEPT
               ![w] = [@ EXCEPT !.pc = "broadcast", !.i = 0,
                                !.broadcast_called = TRUE]]
  /\ UNCHANGED <<active_connections, closed, broadcast, rendered>>
  /\ UNCHANGED agent_vars

\* websocket.py lines 55-57: the iterator yields the element at its position
\* in the list as the list is now, and send_json is awaited; or the loop
\* ends, broadcast_json returns and the handler awaits receive_text again
EpBroadcastNext(w) ==
  /\ handler[w].pc = "broadcast"
  /\ handler' =
       IF handler[w].i < Len(active_connections)
       THEN [handler EXCEPT
               ![w] = [@ EXCEPT
                         !.pc = "send", !.i = handler[w].i + 1,
                         !.connection = active_connections[handler[w].i + 1]]]
       ELSE [handler EXCEPT ![w] = [@ EXCEPT !.pc = "receive", !.i = 0]]
  /\ UNCHANGED <<active_connections, closed, broadcast, rendered>>
  /\ UNCHANGED agent_vars

\* websocket.py lines 57-60 and 47-48: send_json returns, or raises
\* RuntimeError and disconnect(connection) is called, whose list.remove
\* raises ValueError when the connection is no longer in the list; ValueError
\* is not caught by broadcast_json and reaches the except branch of the
\* handler that called it
EpSendReturns(w) ==
  /\ handler[w].pc = "send"
  /\ LET connection == handler[w].connection
     IN IF connection \notin closed
        THEN /\ handler' = Sent(w)
             /\ UNCHANGED active_connections
        ELSE IF Connected(connection)
        THEN /\ handler' = Sent(w)
             /\ active_connections' = Remove(active_connections, connection)
        ELSE /\ handler' = Raise(w, "ValueError")
             /\ UNCHANGED active_connections
  /\ UNCHANGED <<closed, broadcast, rendered>>
  /\ UNCHANGED agent_vars

\* main.py lines 163-174: the error message is sent (RuntimeError of that
\* send is caught), then the finally block calls disconnect(websocket),
\* whose list.remove raises ValueError when the websocket is no longer in
\* the list.  The endpoint has ended: its websocket is closed and a later
\* send to it raises RuntimeError.
EpExcept(w) ==
  /\ handler[w].pc = "except"
  /\ IF Connected(w)
     THEN /\ handler' = Ended(w, "exited", "none")
          /\ active_connections' = Remove(active_connections, w)
     ELSE /\ handler' = Ended(w, "crashed", "ValueError")
          /\ UNCHANGED active_connections
  /\ closed' = closed \cup {w}
  /\ UNCHANGED <<broadcast, rendered>>
  /\ UNCHANGED agent_vars

\* the responses of the model in a websocket turn: a text, or one call of
\* create_task while the run has tool calls left
EndpointResponses(n) ==
  TextResponses \cup
    { [content |-> "",
       tool_calls |->
         <<[name |-> "create_task", args |-> [title |-> "gym"], id |-> <<n, 1>>]>>] :
      k \in 1..(MaxToolCalls - issued) }

EndpointModel(c) ==
  \E r \in EndpointResponses(Len(ModelMessages(state[c]))) : ModelStep(c, r)

NextEndpoint ==
  \/ \E w \in Sockets : EpConnect(w)
  \/ \E w \in Sockets : EpPeerCloses(w)
  \/ \E w \in Sockets, c \in Calls : EpReceiveChat(w, c, "a")
  \/ \E w \in Sockets : EpReceiveDisconnect(w)
  \/ \E c \in Calls : EndpointModel(c)
  \/ \E c \in Calls : ModelFault(c)
  \/ \E c \in Calls : ToolNode(c, "none")
  \/ \E w \in Sockets : EpTurnReturns(w)
  \/ \E w \in Sockets : EpTurnRaises(w)
  \/ \E w \in Sockets : EpReply(w)
  \/ \E w \in Sockets, fault \in {"none", "query"} : EpBroadcastCall(w, fault)
  \/ \E w \in Sockets : EpBroadcastNext(w)
  \/ \E w \in Sockets : EpSendReturns(w)
  \/ \E w \in Sockets : EpExcept(w)

SpecEndpoint == Init /\ [][NextEndpoint]_vars

(***************************************************************************)
(* Properties.                                                             *)
(***************************************************************************)
Last(s) == s[Len(s)]

IsErrorResult(r) == "status" \in DOMAIN r /\ r.status = "error"

IsSuccessResult(r) == "status" \in DOMAIN r /\ r.status = "success"

\* the tool node of turn c has just returned
AfterTool(c) == pc[c] = "model" /\ state[c].agent_outcome.kind = "list"

CountUser(h, u) ==
  Cardinality({i \in 1..Len(h) : h[i].type = "human" /\ h[i].content = u})

ContainsSeg(h, seg) ==
  \E k \in 0..(Len(h) - Len(seg)) : \A i \in 1..Len(seg) : h[k + i] = seg[i]

\* the tool calls requested in turn c, over all its rounds
TurnToolCalls(c) ==
  {tc \in UNION {{m.tool_calls[i] : i \in 1..Len(m.tool_calls)} :
                   m \in {Appended(c)[j] : j \in {j \in 1..Len(Appended(c)) :
                                                    Appended(c)[j].type = "ai"}}} :
     TRUE}

\* the results the tool calls of turn c have returned, by tool call id
TurnToolMessages(c) ==
  {Appended(c)[j] : j \in {j \in 1..Len(Appended(c)) : Appended(c)[j].type = "tool"}}

\* C1: when the tool node returns for a model response carrying N >= 1 tool
\* calls, the history ends with the AIMessage carrying the N calls followed
\* by exactly N ToolMessages, the i-th one carrying the id of the i-th call,
\* whatever the result of each call.
C1_ToolMessagesInCallOrder ==
  \A c \in Calls :
    AfterTool(c) =>
      LET calls == state[c].tool_calls
          N == Len(calls)
          h == state[c].chat_history
      IN /\ N >= 1
         /\ Len(h) >= N + 1
         /\ h[Len(h) - N].type = "ai"
         /\ h[Len(h) - N].tool_calls = calls
         /\ \A i \in 1..N :
              /\ h[Len(h) - N + i].type = "tool"
              /\ h[Len(h) - N + i].tool_call_id = calls[i].id

\* a batch of two calls has returned, the first failed and the second succeeded
C1_Witness ==
  \E c \in Calls :
    /\ AfterTool(c)
    /\ Len(state[c].tool_calls) = 2
    /\ IsErrorResult(state[c].agent_outcome.items[1].response)
    /\ IsSuccessResult(state[c].agent_outcome.items[2].response)

\* C2: at Terminal tasks_updated is true if and only if some tool call of
\* the turn, in any round, was create_task, update_task or delete_task.
C2_FlagIffMutatingCallInTurn ==
  \A c \in Calls :
    pc[c] = "end" =>
      (Get(state[c].tasks_updated, FALSE)
         <=> \E tc \in TurnToolCalls(c) : tc.name \in MutatingTools)

\* C3: tasks_updated true at the end of a turn implies that a create_task,
\* update_task or delete_task call of the turn returned success.
C3_FlagImpliesSuccessfulMutation ==
  \A c \in Calls :
    (pc[c] = "end" /\ Get(state[c].tasks_updated, FALSE)) =>
      \E tc \in TurnToolCalls(c) :
        /\ tc.name \in MutatingTools
        /\ \E m \in TurnToolMessages(c) :
             m.tool_call_id = tc.id /\ IsSuccessResult(m.content)

\* C4: execute_tool returns an error result for every name that is not one
\* of the five registered tools, whatever the arguments.
C4_UnregisteredNameIsError ==
  (executed.tool_name # "" /\ executed.tool_name \notin tools_list)
    => IsErrorResult(executed.result)

\* C5: a finished turn has appended its user utterance exactly once when the
\* history it started from did not end with that utterance, and not at all
\* when it did, whatever the number of rounds.
C5_UtteranceAppendedOnce ==
  \A c \in Calls :
    pc[c] = "end" =>
      LET pre == initial_state[c].chat_history
          u == state[c].input
          guarded == pre # <<>> /\ Last(pre) = HumanMessage(u)
      IN CountUser(state[c].chat_history, u) - CountUser(pre, u)
           = IF guarded THEN 0 ELSE 1

\* C6: after the same text was submitted twice as the first two turns of a
\* fresh agent, the agent's stored history holds one user message with it.
C6_ResubmissionNotDuplicated ==
  \A a \in Agents :
    ( /\ pc[1] = "end" /\ pc[2] = "end"
      /\ \A e \in Calls : e > 2 => pc[e] = "idle"
      /\ session[1] = a /\ session[2] = a
      /\ state[1].input = state[2].input )
    => CountUser(chat_history[a], state[1].input) = 1

\* C7, in a state: in the tool node the pending calls are those of the last
\* model response and agent_outcome is None; at Terminal agent_outcome is the
\* text of the last model response, which is the last message and carries no
\* tool call, and no call is pending.
C7_States ==
  \A c \in Calls :
    /\ (pc[c] = "tool" /\ frame[c].i = 1) =>
         /\ state[c].tool_calls # <<>>
         /\ state[c].agent_outcome = OutcomeNone
         /\ Last(state[c].chat_history).type = "ai"
         /\ Last(state[c].chat_history).tool_calls = state[c].tool_calls
    /\ pc[c] = "end" =>
         /\ state[c].tool_calls = <<>>
         /\ Last(state[c].chat_history).type = "ai"
         /\ Last(state[c].chat_history).tool_calls = <<>>
         /\ state[c].agent_outcome = OutcomeStr(Last(state[c].chat_history).content)

\* C7, in a step: a response of the model leads to the tool node exactly
\* when it carries a tool call and to Terminal otherwise, and the tool node
\* leads back to the model node only.
C7_Steps ==
  \A c \in Calls :
    /\ (pc[c] = "model" /\ pc'[c] \notin {"model", "failed"}) =>
         /\ Last(state'[c].chat_history).type = "ai"
         /\ pc'[c] = IF Last(state'[c].chat_history).tool_calls # <<>>
                     THEN "tool" ELSE "end"
    /\ pc[c] = "tool" => pc'[c] \in {"tool", "model"}

C8_Step ==
  \A c \in Calls :
    (pc[c] = "tool" /\ frame'[c] # frame[c]) =>
      LET i == frame[c].i
          N == Len(state[c].tool_calls)
          tc == state[c].tool_calls[i]
      IN IF i < N
         THEN /\ pc'[c] = "tool"
              /\ frame'[c].i = i + 1
              /\ Len(frame'[c].responses) = i
              /\ frame'[c].responses[i].tool_name = tc.name
              /\ Last(frame'[c].updated_chat_history) =
                   ToolMessage(frame'[c].responses[i].response, tc.id)
         ELSE /\ pc'[c] = "model"
              /\ state'[c].agent_outcome.kind = "list"
              /\ Len(state'[c].agent_outcome.items) = N
              /\ state'[c].agent_outcome.items[N].tool_name = tc.name
              /\ Last(state'[c].chat_history) =
                   ToolMessage(state'[c].agent_outcome.items[N].response, tc.id)

\* C8: a tool failure of any kind never aborts the turn: C8_Step holds of
\* every step, so the failing call gets its ToolMessage, the remaining calls
\* of the batch are executed and the loop returns to the model node.
C8_ToolFailureDoesNotAbort == [][C8_Step]_vars

\* after a failed first call the second call of the batch has created a row
\* and the turn is back at the model node
C8_Witness ==
  \E c \in Calls :
    /\ AfterTool(c)
    /\ Len(state[c].tool_calls) = 2
    /\ IsErrorResult(state[c].agent_outcome.items[1].response)
    /\ state[c].tool_calls[2].name = "create_task"
    /\ IsSuccessResult(state[c].agent_outcome.items[2].response)
    /\ \E k \in 1..Len(db.rows) :
         db.rows[k].id = state[c].agent_outcome.items[2].response.task.id

\* C9, in a step: no step of a turn other than its return at Terminal writes the stored
\* history of its agent: neither a round of the turn nor the fault of the
\* model, so a turn that fails leaves the stored history as it found it.
C9_Step ==
  \A c \in Calls :
    ( /\ session[c] \in Agents
      /\ pc[c] \in {"model", "tool"}
      /\ pc'[c] # "end"
      /\ (pc'[c] # pc[c] \/ state'[c] # state[c] \/ frame'[c] # frame[c]) )
    => chat_history' = chat_history

\* C9: a fault of the model in any round of a turn commits no message of the
\* turn: C9_Step holds of every step.
C9_FaultCommitsNothing == [][C9_Step]_vars

\* a turn has failed in a round after executed tool calls, and the stored
\* history is the one the turn started from
C9_Witness ==
  \E c \in Calls :
    /\ pc[c] = "failed"
    /\ session[c] \in Agents
    /\ state[c].agent_outcome.kind = "list"
    /\ chat_history[session[c]] = initial_state[c].chat_history
    /\ \A d \in Calls \ {c} : pc[d] = "idle"

\* C10: after two turns of the same agent have completed, the stored history
\* contains the messages of both.
C10_NoTurnLost ==
  \A c, d \in Calls :
    ( /\ c # d
      /\ pc[c] = "end" /\ pc[d] = "end"
      /\ session[c] \in Agents /\ session[c] = session[d] )
    => /\ ContainsSeg(chat_history[session[c]], Appended(c))
       /\ ContainsSeg(chat_history[session[c]], Appended(d))

\* every ToolMessage answers a tool call of an earlier AIMessage of h, and
\* every tool call of an AIMessage of h has its ToolMessage later in h
Resolved(h) ==
  /\ \A j \in 1..Len(h) :
       h[j].type = "tool" =>
         \E k \in 1..(j - 1) :
           /\ h[k].type = "ai"
           /\ \E i \in 1..Len(h[k].tool_calls) :
                h[k].tool_calls[i].id = h[j].tool_call_id
  /\ \A k \in 1..Len(h) :
       h[k].type = "ai" =>
         \A i \in 1..Len(h[k].tool_calls) :
           \E j \in (k + 1)..Len(h) :
             h[j].type = "tool" /\ h[j].tool_call_id = h[k].tool_calls[i].id

\* C11: whenever a turn is about to invoke the model, the messages it sends
\* hold no unresolved tool call: every ToolMessage carries the id of a tool
\* call of an earlier AIMessage, and every tool call of every AIMessage has
\* its ToolMessage.
C11_NoUnresolvedToolCall ==
  \A c \in Calls : pc[c] = "model" => Resolved(ModelMessages(state[c]))

\* the model is about to be invoked after a batch of two calls, one of which
\* failed
C11_Witness ==
  \E c \in Calls :
    /\ AfterTool(c)
    /\ invocations < MaxInvocations
    /\ Len(state[c].tool_calls) = 2
    /\ \E i \in 1..2 : IsErrorResult(state[c].agent_outcome.items[i].response)
    /\ Cardinality({j \in 1..Len(ModelMessages(state[c])) :
                      ModelMessages(state[c])[j].type = "tool"}) >= 2

\* C12: the loop has no iteration cap.  A turn is at Terminal only after a
\* response of the model without tool calls, and a turn whose model keeps
\* answering is in the model node, in the tool node or at Terminal: it never
\* stops while the model is requesting tools.
C12_LoopRunsUntilText ==
  \A c \in Calls :
    /\ pc[c] = "end" => Last(state[c].chat_history).tool_calls = <<>>
    /\ pc[c] # "idle" => pc[c] \in {"model", "tool", "end"}

\* the last direct call of execute_tool was update_task or delete_task with
\* arguments that bind
SelectorCall ==
  /\ executed.tool_name \in {"update_task", "delete_task"}
  /\ Binds(executed.tool_name, executed.tool_args)

IsNotFound(r) ==
  IsErrorResult(r) /\ r.message.fmt = "Task not found with ID {}."

\* C13: update_task and delete_task report 'Task not found' only when
\* neither the given task_id nor the given title_match resolves a record:
\* no row has the given id and no row's title contains title_match,
\* case-insensitively.
C13_NotFoundOnlyWhenNothingResolves ==
  (SelectorCall /\ IsNotFound(executed.result)) =>
    LET rows == executed.before.rows
        task_id == Arg(executed.tool_args, "task_id", 0)
        title_match == Arg(executed.tool_args, "title_match", NoneStr)
    IN /\ ~\E k \in 1..Len(rows) : rows[k].id = task_id
       /\ ~(Truthy(title_match)
              /\ \E k \in 1..Len(rows) : ILike(rows[k].title, title_match))

\* C14: every create_task or update_task call that returns an error leaves
\* the rows of the store exactly as they were before the call.
C14_ErrorLeavesStoreUnchanged ==
  ( /\ executed.tool_name \in {"create_task", "update_task"}
    /\ IsErrorResult(executed.result) )
  => db.rows = executed.before.rows

\* the last direct call of execute_tool was a create_task that succeeded
CreateSucceeded ==
  executed.tool_name = "create_task" /\ IsSuccessResult(executed.result)

NoDueDate == ~Truthy(Arg(executed.tool_args, "due_date", NoneStr))

NoPriority == ~Truthy(Arg(executed.tool_args, "priority", NoneStr))

\* the row that the last create_task has stored
CreatedRow ==
  db.rows[CHOOSE k \in 1..Len(db.rows) : db.rows[k].id = executed.result.task.id]

\* C15 as stated: every create_task call with a valid title and no due date
\* results in a task with priority medium and status todo.
C15_DefaultsWithoutDueDate ==
  (CreateSucceeded /\ NoDueDate) =>
    /\ executed.result.task.priority = "medium"
    /\ executed.result.task.status = "todo"

\* C15 amended: every create_task call with a valid title, no due date and
\* no priority results in a task with priority medium and status todo, in
\* the result and in the store.
C15_DefaultsWithoutPriority ==
  (CreateSucceeded /\ NoDueDate /\ NoPriority) =>
    /\ executed.result.task.priority = TaskPriority.MEDIUM
    /\ executed.result.task.status = TaskStatus.TODO
    /\ CreatedRow.priority = TaskPriority.MEDIUM
    /\ CreatedRow.status = TaskStatus.TODO

\* a task was created from a title alone, in a store that held a row
C15_Witness ==
  /\ CreateSucceeded
  /\ DOMAIN executed.tool_args = {"title"}
  /\ executed.before.rows # <<>>
  /\ CreatedRow.priority = "medium"

\* the last direct call of execute_tool was a filter_tasks by status and
\* priority alone that succeeded
FilterSucceeded ==
  /\ executed.tool_name = "filter_tasks"
  /\ DOMAIN executed.tool_args = {"status", "priority"}
  /\ IsSuccessResult(executed.result)

\* number of times the id occurs in a list of task dicts
Occurrences(tasks, id) == Cardinality({j \in 1..Len(tasks) : tasks[j].id = id})

\* C16: round trip of create_task and filter_tasks.  A filter_tasks call by
\* the status and the priority a task was created with returns a list that
\* holds the id of that task exactly once, whatever else the store holds:
\* every row of the store that still has the status and priority filtered by
\* occurs exactly once in the result.
C16_CreateFilterRoundTrip ==
  FilterSucceeded =>
    \A k \in 1..Len(db.rows) :
      ( /\ db.rows[k].status = executed.tool_args.status
        /\ db.rows[k].priority = executed.tool_args.priority )
      => Occurrences(executed.result.tasks, db.rows[k].id) = 1

\* a filter by todo and high has returned the task created with priority
\* 'High' and not the other row of the store
C16_Witness ==
  /\ FilterSucceeded
  /\ executed.tool_args.priority = "high"
  /\ Len(db.rows) = 2
  /\ \E k \in 1..2 : db.rows[k].priority = "high" /\ db.rows[k].status = "todo"
  /\ Len(executed.result.tasks) = 1

Range(list) == {list[k] : k \in 1..Len(list)}

\* C17: a broadcast reaches all connected viewers.  When broadcast_json has
\* returned, a send was attempted to every connection that was in
\* active_connections when it started and whose peer is still there, also
\* when sends to other connections failed and removed them from the list.
C17_BroadcastReachesAll ==
  (~broadcast.running /\ broadcast.at_start # <<>>) =>
    \A w \in Range(broadcast.at_start) :
      w \in Range(broadcast.attempted) \/ w \in closed

IsPrefix(p, h) == Len(p) <= Len(h) /\ SubSeq(h, 1, Len(p)) = p

\* C18, in a state: the history a turn started from is a prefix of the
\* history of the turn, in the state of the workflow and in the tool node.
C18_States ==
  \A c \in Calls :
    /\ pc[c] # "idle" =>
         IsPrefix(initial_state[c].chat_history, state[c].chat_history)
    /\ pc[c] = "tool" =>
         IsPrefix(state[c].chat_history, frame[c].updated_chat_history)

\* C18, in a step: a turn starts from the stored history of its session,
\* every step of the turn extends the history of the turn, and the return of
\* the turn stores its final history, an extension of the history it started
\* from.
C18_Steps ==
  \A c \in Calls :
    /\ (pc[c] = "idle" /\ pc'[c] # "idle" /\ session'[c] \in Agents) =>
         initial_state'[c].chat_history = chat_history[session'[c]]
    /\ pc[c] # "idle" =>
         /\ initial_state'[c] = initial_state[c]
         /\ IsPrefix(state[c].chat_history, state'[c].chat_history)
    /\ (pc[c] = "tool" /\ pc'[c] = "tool") =>
         IsPrefix(frame[c].updated_chat_history, frame'[c].updated_chat_history)
    /\ (pc[c] = "model" /\ pc'[c] = "end" /\ session[c] \in Agents) =>
         /\ chat_history'[session[c]] = state'[c].chat_history
         /\ IsPrefix(initial_state[c].chat_history, chat_history'[session[c]])

\* C18: within a turn the history is append-only, and the pre-turn history
\* of the session is a prefix of the history at every step of the turn and
\* of the history process_input stores at the end of the turn.
C18_AppendOnlyWithinTurn == []C18_States /\ [][C18_Steps]_vars

\* the second turn of an agent, with a tool round, has ended: it started from
\* the history the first turn stored and has stored a longer one
C18_Witness ==
  \E c \in Calls :
    /\ pc[c] = "end"
    /\ session[c] \in Agents
    /\ initial_state[c].chat_history # <<>>
    /\ \E j \in 1..Len(Appended(c)) : Appended(c)[j].type = "tool"
    /\ chat_history[session[c]] = state[c].chat_history
    /\ Len(chat_history[session[c]]) > Len(initial_state[c].chat_history) + 2

\* a step of turn c
TurnStep(c) ==
  pc'[c] # pc[c] \/ state'[c] # state[c] \/ frame'[c] # frame[c]

\* C19, in a step: a call of clear_history empties the stored history of its
\* agent and changes nothing else, neither the store nor the history of
\* another agent nor a running turn; and the next turn of the cleared agent
\* sends the model its new user message only.
C19_Step ==
  /\ \A a \in Agents :
       (a \notin cleared /\ a \in cleared') =>
         /\ chat_history'[a] = <<>>
         /\ \A b \in Agents \ {a} : chat_history'[b] = chat_history[b]
         /\ db' = db
         /\ <<pc, session, initial_state, state, frame>>' =
              <<pc, session, initial_state, state, frame>>
  /\ \A c \in Calls :
       (pc[c] = "idle" /\ pc'[c] # "idle" /\ session'[c] \in cleared) =>
         ModelMessages(state'[c]) = <<HumanMessage(state'[c].input)>>

\* C19: clear_history sets the stored history of its session to empty and
\* changes nothing else, and the next turn of the cleared session starts
\* from a history that holds its new user message only: C19_Step holds of
\* every step.
C19_ClearHistoryFrame == [][C19_Step]_vars

\* C20, in a state: the stored history of an agent is empty or the final
\* history of one of its own completed turns, and a turn starts from nothing
\* or from the final history of a completed turn of its own agent.
C20_States ==
  /\ \A a \in Agents :
       \/ chat_history[a] = <<>>
       \/ \E c \in Calls :
            /\ pc[c] = "end" /\ session[c] = a
            /\ chat_history[a] = state[c].chat_history
  /\ \A c \in Calls :
       pc[c] # "idle" =>
         \/ initial_state[c].chat_history = <<>>
         \/ \E d \in Calls :
              /\ pc[d] = "end" /\ session[d] = session[c]
              /\ initial_state[c].chat_history = state[d].chat_history

\* C20, in a step: no step of a turn changes the stored history of an agent
\* other than the one running the turn.
C20_Steps ==
  \A c \in Calls :
    TurnStep(c) =>
      \A b \in Agents \ {session'[c]} : chat_history'[b] = chat_history[b]

\* C20: conversation state is never shared across sessions, in any
\* interleaving of the turns of two agents.
C20_NotSharedAcrossSessions == []C20_States /\ [][C20_Steps]_vars

\* two agents have each completed a turn, one of them with a tool round, and
\* hold different histories
C20_Witness ==
  \E c, d \in Calls :
    /\ pc[c] = "end" /\ pc[d] = "end"
    /\ session[c] = 1 /\ session[d] = 2
    /\ chat_history[1] = state[c].chat_history
    /\ chat_history[2] = state[d].chat_history
    /\ chat_history[1] # chat_history[2]
    /\ \E j \in 1..Len(chat_history[2]) : chat_history[2][j].type = "tool"


IsToolLine(l) == "tool_name" \in DOMAIN l

IsTaskLine(l) == "title" \in DOMAIN l

\* the items of an outcome list that are success results carrying a record
WithRecord(items) ==
  SelectSeq(items, LAMBDA item :
    IsSuccessResult(item.response) /\ "task" \in DOMAIN item.response)

\* the lines of a text are, in call order, one "Tool 'X' executed" line per
\* item carrying the message of its result and, behind the line of every
\* success result with a record, the summary line of that record
RendersEveryResult(text, items) ==
  LET tool_lines == SelectSeq(text, IsToolLine)
      task_lines == SelectSeq(text, IsTaskLine)
  IN /\ Len(text) = Len(tool_lines) + Len(task_lines)
     /\ Len(tool_lines) = Len(items)
     /\ \A k \in 1..Len(items) :
          /\ tool_lines[k].tool_name = items[k].tool_name
          /\ "message" \in DOMAIN items[k].response
               => tool_lines[k].message = items[k].response.message
     /\ Len(task_lines) = Len(WithRecord(items))
     /\ \A k \in 1..Len(task_lines) :
          LET task == WithRecord(items)[k].response.task
          IN /\ task_lines[k].title = task.title
             /\ task_lines[k].status = task.status
             /\ task_lines[k].priority = task.priority
             /\ TruthyInt(task.id) => task_lines[k].id = task.id

\* C21: rendering an outcome list of N results gives, in call order, one
\* "tool 'X' executed" line per result with the message of the result, and
\* one task-summary line (title, status, priority, id) for each success
\* result carrying a record; get_final_response and the rendering of the
\* websocket handler give the same lines for the same outcome.
C21_RenderingsAgree ==
  rendered.outcome.kind = "list" =>
    /\ RendersEveryResult(rendered.ai_response_content, rendered.outcome.items)
    /\ RendersEveryResult(rendered.get_final_response, rendered.outcome.items)
    /\ rendered.get_final_response = rendered.ai_response_content


\* C22: every accepted websocket is removed from active_connections exactly
\* once: whatever the interleaving of broadcasts and handler exits,
\* disconnect is never called on a websocket that is no longer in the list,
\* so list.remove never raises ValueError.
C22_DisconnectNeverRaises ==
  \A w \in Sockets : handler[w].raised # "ValueError"

\* the handling of a chat message by handler w is over: ainvoke has returned
\* and the handler is back at receive_text or has left the loop
Handled(w) ==
  /\ handler[w].pc \in {"receive", "except"}
  /\ handler[w].turn # 0
  /\ pc[handler[w].turn] = "end"

\* C23: for every chat message the reply is sent to the originating
\* connection before a task_list_update is broadcast for it, and a
\* task_list_update is broadcast for it if and only if the tasks_updated flag
\* of the turn is true.
C23_ReplyThenBroadcastIffUpdated ==
  \A w \in Sockets :
    /\ handler[w].broadcast_called => handler[w].replied
    /\ Handled(w) =>
         (handler[w].broadcast_called
            <=> Get(state[handler[w].turn].tasks_updated, FALSE))

\* the live originating handler w is in broadcast_json
Broadcasting(w) == handler[w].pc \in {"broadcast", "send"} /\ w \notin closed

\* C24: a failure of a send to another viewer during the broadcast does not
\* end the originating session: while the peer of the originating connection
\* is there, its handler stays in the broadcast or goes back to receive_text
\* and its connection stays in active_connections.
C24_Step ==
  \A w \in Sockets :
    Broadcasting(w) =>
      /\ handler'[w].pc \in {"broadcast", "send", "receive"}
      /\ \E k \in 1..Len(active_connections') : active_connections'[k] = w

C24_BroadcastFailureKeepsSession == [][C24_Step]_vars

====
